---- MODULE Spec2Model ----
(***************************************************************************)
(* Kawatte: recursive, filtered, multi-pattern find and replace.           *)
(*                                                                         *)
(* The model follows src/replaceall/replaceall.go (lines 82-325, the       *)
(* current version of the package): CLI -> ParseArgs -> Exec ->            *)
(* loadSubstitutions, walkDir, processFile.  Strings (globs, file names,   *)
(* patterns, file contents) are sequences of one-character strings.        *)
(***************************************************************************)
EXTENDS Integers, Sequences, FiniteSets, TLC

VARIABLES
  pc,        \* position of the run: parse, load, walk, process, done, replace
  args,      \* command-line flags not yet handed to their handler
  given,     \* history: the globs each flag was given, in order
  patGiven,  \* whether -pat was on the command line
  dir,       \* appEnv.dir
  dryRun,    \* appEnv.dryRun
  incFile,   \* appEnv.incFile
  exFile,    \* appEnv.exFile
  incDir,    \* appEnv.incDir
  exDir,     \* appEnv.exDir
  patSrc,    \* what opening and CSV-reading the pattern file yields
  pairs,     \* the (old, new) records handed to strings.NewReplacer
  text,      \* the text a Replacer is applied to (replacement engine runs)
  rs,        \* the Replacer's scan state (replacement engine runs)
  tree,      \* the file tree under dir, entries in traversal order
  lstatErr,  \* whether os.Lstat of the root fails
  readErr,   \* the directories whose os.ReadDir fails
  files,     \* file contents, by entry
  files0,    \* history: file contents before the run
  next,      \* walkDir: the next entry of the traversal
  pending,   \* walkDir: directory whose ReadDir error awaits the callback
  paths,     \* walkDir: the selected paths
  visited,   \* history: entries the callback saw with a nil error
  tested,    \* history: directories the dir globs were tested on
  pruned,    \* history: directories the callback answered SkipDir for
  k,         \* Exec: index in paths of the file processed next
  ioLog,     \* history: reads and writes of files, in order
  stdout,    \* dry-run report lines
  warnings,  \* warnLevel output
  raised,    \* history: every error value some call returned
  retErr     \* the error CLI returns (and logs at error level)

argVars  == <<args, given, patGiven, dir, dryRun, incFile, exFile, incDir, exDir>>
loadVars == <<patSrc, pairs>>
replVars == <<text, rs>>
fsVars   == <<tree, lstatErr, readErr, files, files0>>
walkVars == <<next, pending, paths, visited, tested, pruned>>
execVars == <<k, ioLog, stdout>>
errVars  == <<warnings, raised, retErr>>
vars == <<pc, argVars, loadVars, replVars, fsVars, walkVars, execVars, errVars>>

----------------------------------------------------------------------------
(* Bounds *)

MaxArgs == 2       \* flags on a command line
MaxPairs == 2      \* records in the pattern file
MaxTextLen == 3    \* length of a text handed to the Replacer

SeqsUpTo(S, n) == UNION {[1..m -> S] : m \in 0..n}

Range(s) == {s[j] : j \in 1..Len(s)}

NoErr == <<"nil">>

----------------------------------------------------------------------------
(* path/filepath.Match, as walkDir calls it: the base name against a glob. *)
(* A glob with an unclosed "[" is malformed: Match answers false together   *)
(* with ErrBadPattern.                                                      *)

Star == <<"*">>
DotStar == <<".", "*">>
Dot == <<".">>

IsBad(glob) == \E j \in 1..Len(glob) : glob[j] = "["

RECURSIVE Glob(_, _)
Glob(g, n) ==
  IF g = <<>> THEN n = <<>>
  ELSE IF Head(g) = "*" THEN Glob(Tail(g), n) \/ (n # <<>> /\ Glob(g, Tail(n)))
  ELSE IF Head(g) = "?" THEN n # <<>> /\ Glob(Tail(g), Tail(n))
  ELSE n # <<>> /\ Head(n) = Head(g) /\ Glob(Tail(g), Tail(n))

Match(glob, name) ==
  [matched |-> ~IsBad(glob) /\ Glob(glob, name), err |-> IsBad(glob)]

\* for _, glob := range globs { if matched, _ := filepath.Match(glob, name); matched {...} }
\* matched: some glob matched; errs: the globs whose error the loop dropped
\* before it stopped at the first match.
ScanGlobs(globs, name) ==
  LET hits == {j \in 1..Len(globs) : Match(globs[j], name).matched}
      stop == IF hits = {} THEN Len(globs)
              ELSE CHOOSE j \in hits : \A h \in hits : j <= h
  IN [matched |-> hits # {},
      errs |-> {globs[j] : j \in {h \in 1..stop : Match(globs[h], name).err}}]

----------------------------------------------------------------------------
(* strings.NewReplacer(replacements...) and Replacer.Replace, as           *)
(* loadSubstitutions builds it and processFile applies it.  The generic    *)
(* algorithm of the standard library is modelled: it is the one chosen     *)
(* whenever some old is empty, and the byte and single-string algorithms   *)
(* compute the same function on the pair lists they are chosen for.        *)
(* Positions i and last are 0-based offsets in the text, as in Go.         *)

Old(ps, j) == ps[j][1]
New(ps, j) == ps[j][2]

\* strings.HasPrefix(s[i:], p)
HasPrefixAt(s, i, p) ==
  /\ i + Len(p) <= Len(s)
  /\ \A j \in 1..Len(p) : s[i + j] = p[j]

\* the pairs whose old is a prefix of s[i:]; the empty old (the root of the
\* lookup trie) is ignored right after an empty match
Candidates(ps, s, i, ignoreRoot) ==
  {j \in 1..Len(ps) : /\ HasPrefixAt(s, i, Old(ps, j))
                      /\ ~(ignoreRoot /\ Old(ps, j) = <<>>)}

LookupLongest(ps, s, i, ignoreRoot) ==
  LET cand == Candidates(ps, s, i, ignoreRoot)
  IN IF cand = {} THEN 0
     ELSE CHOOSE j \in cand : \A h \in cand :
            \/ Len(Old(ps, h)) < Len(Old(ps, j))
            \/ (Len(Old(ps, h)) = Len(Old(ps, j)) /\ j <= h)

\* genericReplacer.lookup: the match of highest priority, and priority falls
\* with the place in the argument list (0: no match)
Lookup(ps, s, i, ignoreRoot) ==
  LET cand == Candidates(ps, s, i, ignoreRoot)
  IN IF cand = {} THEN 0
     ELSE CHOOSE j \in cand : \A h \in cand : j <= h

Slice(s, from, to) == SubSeq(s, from + 1, to)

ReplacerStart ==
  [i |-> 0, last |-> 0, out |-> <<>>, prevMatchEmpty |-> FALSE,
   matches |-> <<>>, done |-> FALSE]

\* a body of the scan loop that, after a match, resumes after the length of
\* the replacement instead of the length of the consumed input
ReplaceStepAfterNew(ps, s, st) ==
  LET j == Lookup(ps, s, st.i, st.prevMatchEmpty)
  IN IF j # 0
     THEN [st EXCEPT !.out = st.out \o Slice(s, st.last, st.i) \o New(ps, j),
                     !.i = st.i + Len(New(ps, j)),
                     !.last = st.i + Len(New(ps, j)),
                     !.prevMatchEmpty = (Len(Old(ps, j)) = 0),
                     !.matches = Append(st.matches, [pos |-> st.i, pair |-> j])]
     ELSE [st EXCEPT !.i = st.i + 1, !.prevMatchEmpty = FALSE]

\* one iteration of the loop `for i := 0; i <= len(s); {...}`; matches is the
\* history of (position, pair) replacements made
ReplaceStep(ps, s, st) ==
  LET j == Lookup(ps, s, st.i, st.prevMatchEmpty)
  IN IF j # 0
     THEN [st EXCEPT !.out = st.out \o Slice(s, st.last, st.i) \o New(ps, j),
                     !.i = st.i + Len(Old(ps, j)),
                     !.last = st.i + Len(Old(ps, j)),
                     !.prevMatchEmpty = (Len(Old(ps, j)) = 0),
                     !.matches = Append(st.matches, [pos |-> st.i, pair |-> j])]
     ELSE [st EXCEPT !.i = st.i + 1, !.prevMatchEmpty = FALSE]

\* after the loop: `if last != len(s) { write s[last:] }`
ReplaceFinish(s, st) ==
  [st EXCEPT !.out = st.out \o Slice(s, st.last, Len(s)), !.done = TRUE]

RECURSIVE RunReplacer(_, _, _)
RunReplacer(ps, s, st) ==
  IF st.i > Len(s) THEN ReplaceFinish(s, st)
  ELSE RunReplacer(ps, s, ReplaceStep(ps, s, st))

\* replacer.Replace(oldContent)
Replace(ps, s) == RunReplacer(ps, s, ReplacerStart).out

----------------------------------------------------------------------------
(* Values of the variables a run does not use *)

Flags == {"match", "exclude", "match-dir", "exclude-dir"}

ArgsIdle ==
  /\ args = <<>>
  /\ given = [f \in Flags |-> <<>>]
  /\ patGiven = TRUE
  /\ dir = Dot
  /\ dryRun = FALSE
  /\ incFile = <<Star>>
  /\ exFile = <<DotStar>>
  /\ incDir = <<Star>>
  /\ exDir = <<DotStar>>

LoadIdle == patSrc = [kind |-> "ok", records |-> <<>>] /\ pairs = <<>>

ReplIdle == text = <<>> /\ rs = ReplacerStart

FsIdle ==
  /\ tree = <<[name |-> Dot, isDir |-> TRUE, parent |-> 0]>>
  /\ lstatErr = FALSE
  /\ readErr = {}
  /\ files = <<>>
  /\ files0 = <<>>

WalkIdle ==
  /\ next = 1
  /\ pending = 0
  /\ paths = <<>>
  /\ visited = {}
  /\ tested = {}
  /\ pruned = {}

ExecIdle == k = 1 /\ ioLog = <<>> /\ stdout = <<>>

ErrIdle == warnings = <<>> /\ raised = {} /\ retErr = NoErr

----------------------------------------------------------------------------
(* ParseArgs: the four fl.Func handlers, one per flag occurrence, then the *)
(* checks and defaults after fl.Parse.  The environment sets no flag.      *)

Bad == <<"[">>

FlagHead(f) == args # <<>> /\ Head(args).flag = f

Given(f) == given' = [given EXCEPT ![f] = Append(@, Head(args).glob)]

FlagMatch ==
  /\ pc = "parse" /\ FlagHead("match")
  /\ incFile' = Append(incFile, Head(args).glob)
  /\ Given("match")
  /\ args' = Tail(args)
  /\ UNCHANGED <<pc, patGiven, dir, dryRun, exFile, incDir, exDir>>
  /\ UNCHANGED <<loadVars, replVars, fsVars, walkVars, execVars, errVars>>

FlagExclude ==
  /\ pc = "parse" /\ FlagHead("exclude")
  /\ incFile' = Append(exFile, Head(args).glob)
  /\ Given("exclude")
  /\ args' = Tail(args)
  /\ UNCHANGED <<pc, patGiven, dir, dryRun, exFile, incDir, exDir>>
  /\ UNCHANGED <<loadVars, replVars, fsVars, walkVars, execVars, errVars>>

FlagMatchDir ==
  /\ pc = "parse" /\ FlagHead("match-dir")
  /\ incFile' = Append(incFile, Head(args).glob)
  /\ Given("match-dir")
  /\ args' = Tail(args)
  /\ UNCHANGED <<pc, patGiven, dir, dryRun, exFile, incDir, exDir>>
  /\ UNCHANGED <<loadVars, replVars, fsVars, walkVars, execVars, errVars>>

FlagExcludeDir ==
  /\ pc = "parse" /\ FlagHead("exclude-dir")
  /\ incFile' = Append(exFile, Head(args).glob)
  /\ Given("exclude-dir")
  /\ args' = Tail(args)
  /\ UNCHANGED <<pc, patGiven, dir, dryRun, exFile, incDir, exDir>>
  /\ UNCHANGED <<loadVars, replVars, fsVars, walkVars, execVars, errVars>>

\* `if len(list) == 0 { list = default }`
OrDefault(list, glob) == IF Len(list) = 0 THEN <<glob>> ELSE list

\* flagx.MustHave(fl, "pat") fails: ParseArgs and CLI return the error
ParseArgsMissingPat ==
  /\ pc = "parse" /\ args = <<>> /\ ~patGiven
  /\ raised' = raised \cup {<<"flag", 0>>}
  /\ retErr' = <<"flag", 0>>
  /\ pc' = "done"
  /\ UNCHANGED <<argVars, loadVars, replVars, fsVars, walkVars, execVars, warnings>>

ParseArgsReturn ==
  /\ pc = "parse" /\ args = <<>> /\ patGiven
  /\ incFile' = OrDefault(incFile, Star)
  /\ exFile' = OrDefault(exFile, DotStar)
  /\ incDir' = OrDefault(incDir, Star)
  /\ exDir' = OrDefault(exDir, DotStar)
  /\ pc' = "load"
  /\ UNCHANGED <<args, given, patGiven, dir, dryRun>>
  /\ UNCHANGED <<loadVars, replVars, fsVars, walkVars, execVars, errVars>>

NextArgs ==
  \/ FlagMatch \/ FlagExclude \/ FlagMatchDir \/ FlagExcludeDir
  \/ ParseArgsMissingPat \/ ParseArgsReturn

----------------------------------------------------------------------------
(* Exec: loadSubstitutions *)

\* os.Open or csv.Reader.ReadAll fails: Exec returns the error, CLI logs it
LoadSubstitutionsError ==
  /\ pc = "load" /\ patSrc.kind # "ok"
  /\ raised' = raised \cup {<<"load", 0>>}
  /\ retErr' = <<"load", 0>>
  /\ pc' = "done"
  /\ UNCHANGED <<argVars, loadVars, replVars, fsVars, walkVars, execVars, warnings>>

\* every record, whatever its fields hold, goes to strings.NewReplacer
LoadSubstitutions ==
  /\ pc = "load" /\ patSrc.kind = "ok"
  /\ pairs' = patSrc.records
  /\ warnings' = IF Len(patSrc.records) = 0
                 THEN Append(warnings, <<"nosubs", 0>>) ELSE warnings
  /\ pc' = "walk"
  /\ UNCHANGED <<argVars, patSrc, replVars, fsVars, walkVars, execVars, raised, retErr>>

----------------------------------------------------------------------------
(* Exec: walkDir.  filepath.WalkDir visits the entries in lexical order,   *)
(* parents before children: tree lists them in that order, the root first. *)

Entries == 1..Len(tree)

\* entry.Name(): the base name; the root's is that of app.dir
Name(id) == IF id = 1 THEN dir ELSE tree[id].name

RECURSIVE IsUnder(_, _)
IsUnder(id, d) ==
  IF tree[id].parent = 0 THEN FALSE
  ELSE tree[id].parent = d \/ IsUnder(tree[id].parent, d)

\* the entry the traversal goes on with when it does not descend into d
After(d) ==
  CHOOSE j \in (d + 1)..(Len(tree) + 1) :
    /\ j = Len(tree) + 1 \/ ~IsUnder(j, d)
    /\ \A h \in (d + 1)..(j - 1) : IsUnder(h, d)

\* the callback on a directory with a nil error
VisitDir(id) ==
  IF id = 1 /\ dir = Dot
  THEN [ret |-> "nil", tested |-> FALSE, errs |-> {}]
  ELSE LET ex == ScanGlobs(exDir, Name(id))
           inc == ScanGlobs(incDir, Name(id))
       IN IF ex.matched
          THEN [ret |-> "SkipDir", tested |-> TRUE, errs |-> ex.errs]
          ELSE [ret |-> IF inc.matched THEN "nil" ELSE "SkipDir",
                tested |-> TRUE, errs |-> ex.errs \cup inc.errs]

\* a callback that tests the include globs of a file before the exclude globs
VisitFileIncludeFirst(id) ==
  LET ex == ScanGlobs(exFile, Name(id))
      inc == ScanGlobs(incFile, Name(id))
  IN IF inc.matched
     THEN [selected |-> TRUE, errs |-> inc.errs]
     ELSE [selected |-> FALSE, errs |-> ex.errs \cup inc.errs]

\* the callback on a file with a nil error
VisitFile(id) ==
  LET ex == ScanGlobs(exFile, Name(id))
      inc == ScanGlobs(incFile, Name(id))
  IN IF ex.matched
     THEN [selected |-> FALSE, errs |-> ex.errs]
     ELSE [selected |-> inc.matched, errs |-> ex.errs \cup inc.errs]

\* a callback that hands the walk's error back, which ends the walk
OnWalkErrorAbort(id) == [ret |-> "err", warn |-> <<"walk", id>>]

\* the callback with a non-nil error: one warning, and the walk goes on
OnWalkError(id) == [ret |-> "nil", warn |-> <<"walk", id>>]

GlobErrs(errs) == {<<"glob", g>> : g \in errs}

\* os.Lstat of the root fails: the callback gets the error and the walk ends
WalkLstatError ==
  /\ pc = "walk" /\ pending = 0 /\ next = 1 /\ lstatErr
  /\ raised' = raised \cup {<<"walk", 1>>}
  /\ warnings' = Append(warnings, OnWalkError(1).warn)
  /\ next' = Len(tree) + 1
  /\ UNCHANGED <<pc, argVars, loadVars, replVars, fsVars, execVars, retErr>>
  /\ UNCHANGED <<pending, paths, visited, tested, pruned>>

WalkVisitDir ==
  /\ pc = "walk" /\ pending = 0 /\ next \in Entries
  /\ ~(next = 1 /\ lstatErr)
  /\ tree[next].isDir
  /\ LET r == VisitDir(next)
         fails == r.ret = "nil" /\ next \in readErr
     IN /\ visited' = visited \cup {next}
        /\ tested' = IF r.tested THEN tested \cup {next} ELSE tested
        /\ pruned' = IF r.ret = "SkipDir" THEN pruned \cup {next} ELSE pruned
        /\ raised' = raised \cup GlobErrs(r.errs)
                       \cup (IF fails THEN {<<"walk", next>>} ELSE {})
        /\ pending' = IF fails THEN next ELSE 0
        /\ next' = IF r.ret = "SkipDir" THEN After(next)
                   ELSE IF fails THEN next ELSE next + 1
  /\ UNCHANGED <<pc, argVars, loadVars, replVars, fsVars, execVars, warnings, retErr>>
  /\ UNCHANGED paths

WalkVisitFile ==
  /\ pc = "walk" /\ pending = 0 /\ next \in Entries
  /\ ~tree[next].isDir
  /\ LET r == VisitFile(next)
     IN /\ paths' = IF r.selected THEN Append(paths, next) ELSE paths
        /\ raised' = raised \cup GlobErrs(r.errs)
  /\ visited' = visited \cup {next}
  /\ next' = next + 1
  /\ UNCHANGED <<pc, argVars, loadVars, replVars, fsVars, execVars, warnings, retErr>>
  /\ UNCHANGED <<pending, tested, pruned>>

\* os.ReadDir of a directory the callback let through failed: the callback is
\* called again with the error; the directory's entries are not listed
WalkReadDirError ==
  /\ pc = "walk" /\ pending # 0
  /\ warnings' = Append(warnings, OnWalkError(pending).warn)
  /\ next' = IF OnWalkError(pending).ret = "nil" THEN After(pending)
             ELSE Len(tree) + 1
  /\ pending' = 0
  /\ UNCHANGED <<pc, argVars, loadVars, replVars, fsVars, execVars, raised, retErr>>
  /\ UNCHANGED <<paths, visited, tested, pruned>>

WalkDirReturn ==
  /\ pc = "walk" /\ pending = 0 /\ next > Len(tree)
  /\ pc' = "process"
  /\ UNCHANGED <<argVars, loadVars, replVars, fsVars, walkVars, execVars, errVars>>

NextWalk ==
  \/ WalkLstatError \/ WalkVisitDir \/ WalkVisitFile
  \/ WalkReadDirError \/ WalkDirReturn

----------------------------------------------------------------------------
(* Exec: the loop over paths, processFile on each *)

\* a loop that goes on with the next path after a failed processFile
OnProcessErrorSkip == "process"

\* `if err := app.processFile(path, replacer); err != nil { return err }`
OnProcessError == "done"

WritesFileAlways == TRUE

\* `if app.dryRun { ...; return nil }` before os.WriteFile
WritesFile == ~dryRun

\* `if oldContent != newContent { fmt.Printf("* %q\n", filePath) }`
DryRunReport(path, oldContent, newContent) ==
  IF oldContent # newContent THEN <<path>> ELSE <<>>

Prefixes(s) == {SubSeq(s, 1, n) : n \in 0..(Len(s) - 1)}

Failed(op, path) ==
  /\ raised' = raised \cup {<<op, path>>}
  /\ retErr' = IF OnProcessError = "done" THEN <<op, path>> ELSE retErr
  /\ pc' = OnProcessError
  /\ k' = IF OnProcessError = "done" THEN k ELSE k + 1

\* os.ReadFile fails
ProcessFileReadError ==
  /\ pc = "process" /\ k <= Len(paths)
  /\ ioLog' = Append(ioLog, <<"read", paths[k], FALSE>>)
  /\ Failed("read", paths[k])
  /\ UNCHANGED <<argVars, loadVars, replVars, fsVars, walkVars, stdout, warnings>>

ProcessFileDryRun ==
  /\ pc = "process" /\ k <= Len(paths)
  /\ ~WritesFile
  /\ LET oldContent == files[paths[k]]
         newContent == Replace(pairs, oldContent)
     IN stdout' = stdout \o DryRunReport(paths[k], oldContent, newContent)
  /\ ioLog' = Append(ioLog, <<"read", paths[k], TRUE>>)
  /\ k' = k + 1
  /\ UNCHANGED <<pc, argVars, loadVars, replVars, fsVars, walkVars, errVars>>

ProcessFileWrite ==
  /\ pc = "process" /\ k <= Len(paths)
  /\ WritesFile
  /\ files' = [files EXCEPT ![paths[k]] = Replace(pairs, files[paths[k]])]
  /\ ioLog' = ioLog \o << <<"read", paths[k], TRUE>>, <<"write", paths[k], TRUE>> >>
  /\ k' = k + 1
  /\ UNCHANGED <<pc, argVars, loadVars, replVars, walkVars, stdout, errVars>>
  /\ UNCHANGED <<tree, lstatErr, readErr, files0>>

\* os.WriteFile fails: before it opened the file (the content stays), or
\* after it truncated it (a part of the new content is left)
ProcessFileWriteError ==
  /\ pc = "process" /\ k <= Len(paths)
  /\ WritesFile
  /\ \E left \in {files[paths[k]]} \cup Prefixes(Replace(pairs, files[paths[k]])) :
       files' = [files EXCEPT ![paths[k]] = left]
  /\ ioLog' = ioLog \o << <<"read", paths[k], TRUE>>, <<"write", paths[k], FALSE>> >>
  /\ Failed("write", paths[k])
  /\ UNCHANGED <<argVars, loadVars, replVars, walkVars, stdout, warnings>>
  /\ UNCHANGED <<tree, lstatErr, readErr, files0>>

ExecReturn ==
  /\ pc = "process" /\ k > Len(paths)
  /\ pc' = "done"
  /\ UNCHANGED <<argVars, loadVars, replVars, fsVars, walkVars, execVars, errVars>>

NextProcess ==
  \/ ProcessFileReadError \/ ProcessFileDryRun \/ ProcessFileWrite
  \/ ProcessFileWriteError \/ ExecReturn

----------------------------------------------------------------------------
(* The replacement engine on its own: a Replacer built from a pair list,   *)
(* applied to a text, one loop iteration per step.                         *)

Olds == {<<>>, <<"a">>, <<"b">>, <<"a", "b">>, <<"b", "a">>}
News == {<<>>, <<"b">>, <<"c", "a">>}

\* the usage example of ParseArgs: subs.csv a,b b,c c,a and in.txt abcdef
CyclePairs == << <<<<"a">>, <<"b">>>>, <<<<"b">>, <<"c">>>>, <<<<"c">>, <<"a">>>> >>
CycleText == <<"a", "b", "c", "d", "e", "f">>

PairLists == SeqsUpTo(Olds \X News, MaxPairs) \cup {CyclePairs}
Texts == SeqsUpTo({"a", "b"}, MaxTextLen) \cup {CycleText}

InitReplace ==
  /\ pc = "replace"
  /\ pairs \in PairLists
  /\ patSrc = [kind |-> "ok", records |-> pairs]
  /\ text \in Texts
  /\ rs = ReplacerStart
  /\ ArgsIdle /\ FsIdle /\ WalkIdle /\ ExecIdle /\ ErrIdle

ReplaceScan ==
  /\ pc = "replace"
  /\ ~rs.done
  /\ rs.i <= Len(text)
  /\ rs' = ReplaceStep(pairs, text, rs)
  /\ UNCHANGED <<pc, argVars, loadVars, text, fsVars, walkVars, execVars, errVars>>

ReplaceEnd ==
  /\ pc = "replace"
  /\ ~rs.done
  /\ rs.i > Len(text)
  /\ rs' = ReplaceFinish(text, rs)
  /\ UNCHANGED <<pc, argVars, loadVars, text, fsVars, walkVars, execVars, errVars>>

NextReplace == ReplaceScan \/ ReplaceEnd

SpecReplace == InitReplace /\ [][NextReplace]_vars

NonEmptyOlds(ps) == \A j \in 1..Len(ps) : Old(ps, j) # <<>>

\* the output a list of replacements ms (from the j-th on) stands for, on the
\* input s from offset `from` up to offset `upto`: the input between the
\* replaced occurrences, copied, and each occurrence's new in its place
RECURSIVE Render(_, _, _, _, _, _)
Render(ps, s, ms, j, from, upto) ==
  IF j > Len(ms) THEN Slice(s, from, upto)
  ELSE Slice(s, from, ms[j].pos) \o New(ps, ms[j].pair)
       \o Render(ps, s, ms, j + 1, ms[j].pos + Len(Old(ps, ms[j].pair)), upto)

\* C1: with non-empty olds the Replacer makes one left-to-right pass over the
\* input: every replacement is made at an occurrence of its old in the input,
\* the occurrences do not overlap and follow one another (the scan resumes
\* right after the consumed input), and the output is the input with each
\* occurrence replaced by its pair's new; replaced text is never matched
\* again, so the cycle a->b, b->c, c->a turns "a" into "b" and "abcdef" into
\* "bcadef".
C1_SinglePass ==
  (pc = "replace" /\ NonEmptyOlds(pairs)) =>
    /\ \A m \in 1..Len(rs.matches) :
         /\ HasPrefixAt(text, rs.matches[m].pos, Old(pairs, rs.matches[m].pair))
         /\ m < Len(rs.matches) =>
              rs.matches[m].pos + Len(Old(pairs, rs.matches[m].pair))
                <= rs.matches[m + 1].pos
    /\ rs.matches # <<>> =>
         LET m == rs.matches[Len(rs.matches)]
         IN rs.last = m.pos + Len(Old(pairs, m.pair))
    /\ rs.last <= rs.i
    /\ rs.out = Render(pairs, text, rs.matches, 1, 0,
                       IF rs.done THEN Len(text) ELSE rs.last)
    /\ (rs.done /\ pairs = CyclePairs /\ text = <<"a">>) => rs.out = <<"b">>
    /\ (rs.done /\ pairs = CyclePairs /\ text = CycleText)
         => rs.out = <<"b", "c", "a", "d", "e", "f">>

\* a finished pass in which a replacement's new text holds an old pattern
\* that the pass left in the output
C1_Witness ==
  /\ pc = "replace" /\ rs.done /\ NonEmptyOlds(pairs)
  /\ Len(rs.matches) >= 2
  /\ \E j \in 1..Len(pairs) : \E p \in 0..Len(rs.out) :
       HasPrefixAt(rs.out, p, Old(pairs, j))

\* the positions the scan has passed without replacing anything there
Skipped(ps, st) ==
  {p \in 0..(st.i - 1) :
     \A m \in 1..Len(st.matches) :
       ~(st.matches[m].pos <= p /\ p < st.matches[m].pos + Len(Old(ps, st.matches[m].pair)))}

HasEmptyOld(ps) == \E j \in 1..Len(ps) : Old(ps, j) = <<>>

OccursIn(s, p) == \E i \in 0..Len(s) : HasPrefixAt(s, i, p)

\* C6: a pair with an empty old never matches (loadSubstitutions rejects no
\* pair list): no replacement is made at a zero-width position, and a text
\* holding no occurrence of a non-empty old is returned unchanged.
C6_EmptyOldNeverMatches ==
  (pc = "replace" /\ HasEmptyOld(pairs)) =>
    /\ \A m \in 1..Len(rs.matches) : Old(pairs, rs.matches[m].pair) # <<>>
    /\ (rs.done /\ \A j \in 1..Len(pairs) :
                     Old(pairs, j) # <<>> => ~OccursIn(text, Old(pairs, j)))
         => rs.out = text

----------------------------------------------------------------------------
(* File trees: entries in traversal order, with the files' contents *)

Dir(n, p) == [name |-> n, isDir |-> TRUE, parent |-> p]
File(n, p) == [name |-> n, isDir |-> FALSE, parent |-> p]

\* .h  a  s/.g/c  s/b  t/a
TreeA ==
  [entries |-> << Dir(Dot, 0), File(<<".", "h">>, 1), File(<<"a">>, 1),
                  Dir(<<"s">>, 1), Dir(<<".", "g">>, 4), File(<<"c">>, 5),
                  File(<<"b">>, 4), Dir(<<"t">>, 1), File(<<"a">>, 8) >>,
   content |-> << <<>>, <<"a", "b">>, CycleText, <<>>, <<>>, <<"a">>,
                  <<"d">>, <<>>, <<"b", "a">> >>]

\* a/a  a/s/.h  b
TreeB ==
  [entries |-> << Dir(Dot, 0), Dir(<<"a">>, 1), File(<<"a">>, 2),
                  Dir(<<"s">>, 2), File(<<".", "h">>, 4), File(<<"b">>, 1) >>,
   content |-> << <<>>, <<>>, <<"a", "b">>, <<>>, <<"a">>, <<"d">> >>]

Trees == {TreeA, TreeB}

Dirs(t) == {id \in 1..Len(t.entries) : t.entries[id].isDir}

\* the failures of the file system during a walk: none, the root's Lstat,
\* or the ReadDir of one directory
FsInit(t) ==
  /\ tree = t.entries
  /\ files = t.content
  /\ files0 = t.content
  /\ \/ lstatErr = FALSE /\ readErr = {}
     \/ lstatErr = TRUE /\ readErr = {}
     \/ lstatErr = FALSE /\ \E d \in Dirs(t) : readErr = {d}

----------------------------------------------------------------------------
(* The program: CLI(args) from the command line to its return *)

ExecArgs ==
  {<<>>} \cup {<<[flag |-> f, glob |-> g]>> : f \in Flags, g \in {<<"a">>, Bad}}

\* the default "." and ".."
ExecDirs == {Dot, <<".", ".">>}

ExecRecords ==
  {<<>>, CyclePairs, << <<<<>>, <<"b">>>> >>, << <<<<"a">>, <<>>>>, <<<<"a", "b">>, <<"c", "a">>>> >>}

PatSrcs ==
  {[kind |-> "openErr", records |-> <<>>], [kind |-> "csvErr", records |-> <<>>]}
    \cup {[kind |-> "ok", records |-> r] : r \in ExecRecords}

ArgsStart ==
  /\ given = [f \in Flags |-> <<>>]
  /\ incFile = <<>>
  /\ exFile = <<>>
  /\ incDir = <<>>
  /\ exDir = <<>>

Init ==
  /\ pc = "parse"
  /\ args \in ExecArgs
  /\ patGiven \in BOOLEAN
  /\ dir \in ExecDirs
  /\ dryRun \in BOOLEAN
  /\ ArgsStart
  /\ patSrc \in PatSrcs
  /\ pairs = <<>>
  /\ FsInit(TreeA)
  /\ ReplIdle /\ WalkIdle /\ ExecIdle /\ ErrIdle

LoadStep == LoadSubstitutionsError \/ LoadSubstitutions

Next == NextArgs \/ LoadStep \/ NextWalk \/ NextProcess

Spec == Init /\ [][Next]_vars

----------------------------------------------------------------------------
(* ParseArgs on its own, on every command line of up to MaxArgs glob flags *)

ArgGlobs == {Star, <<"a">>, Bad}

InitArgs ==
  /\ pc = "parse"
  /\ args \in SeqsUpTo([flag : Flags, glob : ArgGlobs], MaxArgs)
  /\ patGiven \in BOOLEAN
  /\ dir = Dot
  /\ dryRun = FALSE
  /\ ArgsStart
  /\ LoadIdle /\ ReplIdle /\ FsIdle /\ WalkIdle /\ ExecIdle /\ ErrIdle

SpecArgs == InitArgs /\ [][NextArgs]_vars

\* C4: after ParseArgs each of the four glob lists holds the globs given
\* with its own flag, in order, or its default when the flag was not given.
C4_EachFlagItsOwnList ==
  pc = "load" =>
    /\ incFile = OrDefault(given["match"], Star)
    /\ exFile = OrDefault(given["exclude"], DotStar)
    /\ incDir = OrDefault(given["match-dir"], Star)
    /\ exDir = OrDefault(given["exclude-dir"], DotStar)

----------------------------------------------------------------------------
(* walkDir on its own, on every filter set of up to MaxGlobs globs a list  *)

MaxGlobs == 1

GlobLists(S) == SeqsUpTo(S, MaxGlobs) \ {<<>>}

\* ".", "d" and ".."
WalkDirs == {Dot, <<"d">>, <<".", ".">>}

InitWalk ==
  /\ pc = "walk"
  /\ args = <<>>
  /\ given = [f \in Flags |-> <<>>]
  /\ patGiven = TRUE
  /\ dir \in WalkDirs
  /\ dryRun = FALSE
  /\ incFile \in GlobLists({Star, <<"a">>, Bad})
  /\ exFile \in GlobLists({DotStar, <<"a">>})
  /\ incDir \in GlobLists({Star, <<"s">>})
  /\ exDir \in GlobLists({DotStar, <<"t">>})
  /\ \E t \in Trees : FsInit(t)
  /\ LoadIdle /\ ReplIdle /\ WalkIdle /\ ExecIdle /\ ErrIdle

SpecWalk == InitWalk /\ [][NextWalk]_vars

MatchAny(globs, name) == \E j \in 1..Len(globs) : Match(globs[j], name).matched

\* a non-root directory the dir filters keep the walk out of
FilteredOut(d) ==
  /\ d # 1 /\ tree[d].isDir
  /\ MatchAny(exDir, Name(d)) \/ ~MatchAny(incDir, Name(d))

\* C3: exclude wins over include: no selected path is a directory, has a
\* base name matching an exclude-files glob, or lies under a non-root
\* directory that matches an exclude-dirs glob or no include-dirs glob; the
\* walk prunes such a directory and visits nothing under it.
C3_ExcludeWins ==
  /\ \A j \in 1..Len(paths) :
       /\ ~tree[paths[j]].isDir
       /\ ~MatchAny(exFile, Name(paths[j]))
       /\ \A d \in Entries : IsUnder(paths[j], d) => ~FilteredOut(d)
  /\ \A d \in visited :
       FilteredOut(d) =>
         /\ d \in pruned
         /\ \A id \in Entries : IsUnder(id, d) => id \notin visited

\* the walk is over and left out a file that matches an include-files and an
\* exclude-files glob, and pruned a directory that matches an include-dirs
\* and an exclude-dirs glob
C3_Witness ==
  /\ pc = "process"
  /\ \E f \in visited :
       /\ ~tree[f].isDir
       /\ MatchAny(exFile, Name(f)) /\ MatchAny(incFile, Name(f))
       /\ f \notin Range(paths)
  /\ \E d \in pruned :
       /\ d # 1
       /\ MatchAny(exDir, Name(d)) /\ MatchAny(incDir, Name(d))
  /\ paths # <<>>

\* C10: whatever the starting directory is called, the dir globs are never
\* tested on the root and the walk descends into it.
C10_RootNeverFiltered ==
  /\ 1 \notin tested
  /\ 1 \notin pruned
  /\ (pc = "process" /\ ~lstatErr) =>
       \A id \in Entries : tree[id].parent = 1 => id \in visited

----------------------------------------------------------------------------
(* Properties of a whole run of CLI *)

Count(seq, e) == Cardinality({j \in 1..Len(seq) : seq[j] = e})

\* the paths processFile has returned nil for
Processed == SubSeq(paths, 1, k - 1)

\* C5: with dry-run true no file is written: every file keeps its content,
\* whether or not a pattern matched, and the report lists, in order, exactly
\* the processed paths whose replaced content differs from the original
\* (all the selected ones once Exec has returned nil).
C5_DryRunWritesNothing ==
  dryRun =>
    LET Changed(p) == Replace(pairs, files0[p]) # files0[p]
    IN /\ files = files0
       /\ \A j \in 1..Len(ioLog) : ioLog[j][1] # "write"
       /\ stdout = SelectSeq(Processed, Changed)
       /\ (pc = "done" /\ retErr = NoErr) => stdout = SelectSeq(paths, Changed)

\* a finished dry run over files of which some would change and some not
C5_Witness ==
  /\ dryRun /\ pc = "done" /\ retErr = NoErr
  /\ stdout # <<>>
  /\ Len(stdout) < Len(paths)

IsRead(e) == e[1] = "read"

\* C7: Exec processes the selected paths one after another in walkDir's
\* order and returns at the first failed read or write: the failed call is
\* the last one made, no later path is read or written, a failed read leaves
\* its file as it was, and exactly the paths before the failed one have been
\* rewritten.
C7_AbortsAtFirstError ==
  LET reads == SelectSeq(ioLog, IsRead)
      io == retErr[1] \in {"read", "write"}
  IN /\ Len(reads) <= Len(paths)
     /\ \A j \in 1..Len(reads) : reads[j][2] = paths[j]
     /\ \A j \in 1..Len(ioLog) :
          /\ ioLog[j][1] = "write" => (j > 1 /\ ioLog[j - 1] = <<"read", ioLog[j][2], TRUE>>)
          /\ ioLog[j][3] = FALSE =>
               /\ j = Len(ioLog)
               /\ pc = "done"
               /\ retErr = <<ioLog[j][1], ioLog[j][2]>>
     /\ io =>
          /\ pc = "done"
          /\ k \in 1..Len(paths)
          /\ retErr[2] = paths[k]
          /\ ioLog[Len(ioLog)] = <<retErr[1], paths[k], FALSE>>
          /\ retErr[1] = "read" => files[paths[k]] = files0[paths[k]]
     /\ \A j \in 1..Len(paths) :
          /\ j < k => files[paths[j]] =
                        IF dryRun THEN files0[paths[j]]
                        ELSE Replace(pairs, files0[paths[j]])
          /\ j > k => files[paths[j]] = files0[paths[j]]
          /\ j >= k => \A h \in 1..Len(ioLog) :
                         ioLog[h][2] = paths[j] => (j = k /\ io)
     /\ \A id \in DOMAIN files : id \notin Range(paths) => files[id] = files0[id]

\* a run that failed on a path in the middle of the list, after it rewrote
\* a file before it
C7_Witness ==
  /\ pc = "done" /\ ~dryRun
  /\ retErr[1] \in {"read", "write"}
  /\ 1 < k /\ k < Len(paths)
  /\ files[paths[1]] # files0[paths[1]]

\* C8: every error a call returned during the run is the error CLI returns
\* or is in the warnings.
C8_NoErrorDropped ==
  pc = "done" => \A e \in raised : e = retErr \/ e \in Range(warnings)

\* walkDir has returned
Walked == pc = "process" \/ (pc = "done" /\ retErr[1] \notin {"flag", "load"})

\* an entry the walk can list: the root's Lstat worked, and the entry lies
\* under no directory that was pruned or whose ReadDir failed
Listed(id) ==
  /\ ~lstatErr
  /\ \A d \in Entries :
       IsUnder(id, d) => (d \notin pruned /\ <<"walk", d>> \notin raised)

\* C9: an entry error of the walk gives one warning and does not select the
\* entry; the walk goes on: every entry it can still list is visited, every
\* visited file is filtered, the selection keeps the traversal order, and a
\* run without a read or write failure reads exactly the selected paths.
C9_WalkGoesOnAfterError ==
  Walked =>
    /\ \A e \in raised :
         e[1] = "walk" => (Count(warnings, e) = 1 /\ e[2] \notin Range(paths))
    /\ \A id \in Entries : Listed(id) => id \in visited
    /\ \A f \in visited :
         ~tree[f].isDir =>
           (f \in Range(paths) <=>
              (~MatchAny(exFile, Name(f)) /\ MatchAny(incFile, Name(f))))
    /\ \A i, j \in 1..Len(paths) : i < j => paths[i] < paths[j]
    /\ (pc = "done" /\ retErr = NoErr) =>
         /\ Len(SelectSeq(ioLog, IsRead)) = Len(paths)
         /\ \A j \in 1..Len(paths) : SelectSeq(ioLog, IsRead)[j][2] = paths[j]

\* a finished run whose walk met a directory it could not read and selected
\* and processed a file that comes after that directory
C9_Witness ==
  /\ pc = "done" /\ retErr = NoErr
  /\ \E d \in Entries :
       /\ d # 1
       /\ <<"walk", d>> \in raised
       /\ \E j \in 1..Len(paths) : paths[j] > d
  /\ Len(SelectSeq(ioLog, IsRead)) = Len(paths)

====
